---- MODULE Spec2Model ----
(***************************************************************************)
(* A model of the reactive core of explore-the-pyramid:                    *)
(*   - Dep (src/core/observer/dep.js): subscriber list, notify, and the    *)
(*     Dep.target stack;                                                   *)
(*   - Observer / observe / defineReactive / set / del                     *)
(*     (src/platforms/web/compiler/directives/model.js, lines 153-451).    *)
(*                                                                         *)
(*   - the template optimizer (src/compiler/optimizer.js);                 *)
(*   - updateListeners and createFnInvoker (src/unnamed/part_000).         *)
(*                                                                         *)
(* SpecDep drives one Dep through its public API (addSub, removeSub,       *)
(* notify).  Spec drives a small heap of records through observe, reads,   *)
(* writes, set, del, defineReactive and the target stack.  SpecList runs   *)
(* set on a list.  SpecOpt runs optimize on every small template AST.      *)
(* SpecArr reads a property that holds a list.  SpecEv calls               *)
(* updateListeners again and again, each time with the previous on.        *)
(***************************************************************************)
EXTENDS Integers, Sequences, FiniteSets, TLC

(***************************************************************************)
(* Bounds.                                                                 *)
(***************************************************************************)
\* watcher (subscriber) ids are 1..NumSubs
NumSubs == 2
\* addSub is not taken on a subscriber list that already has MaxSubs entries
MaxSubs == 3

WatcherIds == 1..NumSubs
\* the watchers that are evaluated (pushed as Dep.target) in Spec
Evaluated == {1, 2}

VARIABLES
  \* ---- the build and the configuration ----
  async,          \* config.async
  production,     \* process.env.NODE_ENV === 'production'
  \* ---- SpecDep: one Dep under test ----
  subs,           \* Dep.subs: the subscriber list (watcher ids, insertion order)
  round,          \* the last call on the Dep, and what the last notify() did
  \* ---- Spec: the observed heap ----
  props,          \* props[o][key]: the property key of object o
  ob,             \* ob[o]: o.__ob__, an index into observers (0: none)
  observers,      \* the Observers created so far
  deps,           \* deps[d + 1]: the subscriber list of the Dep with id d
  wdeps,          \* wdeps[w]: the Deps watcher w is subscribed to
  wnew,           \* wnew[w]: the Deps w has read in its running evaluation
  shouldObserve,  \* the module's shouldObserve flag
  targetStack,    \* dep.js targetStack
  target,         \* Dep.target (0: null or undefined)
  saved,          \* history: Dep.target as it was before each pending pushTarget
  steps,          \* the number of operations run so far
  last,           \* the last operation: its arguments and what it did
  \* ---- SpecOpt: the template optimizer ----
  ast,            \* the template AST: ast[n] is node n, node 1 the root
  optimized,      \* optimize(root) has run
  \* ---- SpecList: set on a list ----
  items,          \* the list: items[i + 1] is the element at index i
  setCall,        \* the last set(list, index, value) call and what it did
  \* ---- SpecArr: a reactive property that holds a list ----
  cells,          \* the list (cell 1) and the lists, records and numbers below it
  \* ---- SpecEv: updateListeners ----
  listeners       \* the on map, the function objects, the registered listeners

heapVars == <<props, ob, observers, deps, wdeps, wnew>>
obsVars == <<props, ob, observers, deps, wdeps, wnew, shouldObserve, targetStack,
             target, saved, steps, last>>
optVars == <<ast, optimized, items, setCall, cells, listeners>>
vars == <<async, production, subs, round, props, ob, observers, deps, wdeps, wnew,
          shouldObserve, targetStack, target, saved, steps, last, ast, optimized,
          items, setCall, cells, listeners>>

(***************************************************************************)
(* Dep: pure operators on a subscriber list.                               *)
(***************************************************************************)

\* Array.prototype.indexOf: the first index holding item, 0 when absent
IndexOf(arr, item) ==
  IF \E i \in 1..Len(arr) : arr[i] = item
  THEN CHOOSE i \in 1..Len(arr) : arr[i] = item /\ \A j \in 1..(i - 1) : arr[j] # item
  ELSE 0

\* util remove(arr, item): splice out the first matching entry, if any
remove(arr, item) ==
  LET i == IndexOf(arr, item)
  IN IF i = 0 THEN arr ELSE SubSeq(arr, 1, i - 1) \o SubSeq(arr, i + 1, Len(arr))

\* Dep.addSub: this.subs.push(sub)
addSub(list, sub) == Append(list, sub)

\* a removal that takes out every matching entry
removeSubEvery(list, sub) == SelectSeq(list, LAMBDA x : x # sub)

\* Dep.removeSub: remove(this.subs, sub)
removeSub(list, sub) == remove(list, sub)

\* insertion of x into a list sorted by id, after the entries with id <= x
RECURSIVE InsertById(_, _)
InsertById(sorted, x) ==
  IF sorted = <<>> THEN <<x>>
  ELSE IF Head(sorted) <= x THEN <<Head(sorted)>> \o InsertById(Tail(sorted), x)
  ELSE <<x>> \o sorted

\* subs.sort((a, b) => a.id - b.id): a stable sort by ascending id
RECURSIVE SortById(_)
SortById(list) ==
  IF list = <<>> THEN <<>>
  ELSE InsertById(SortById(SubSeq(list, 1, Len(list) - 1)), list[Len(list)])

\* the guard of the sort in notify()
ShouldSort(isProduction, isAsync) == ~isProduction /\ ~isAsync

\* the local `subs` of notify(): a copy of this.subs, sorted when ShouldSort
NotifyOrder(list, isProduction, isAsync) ==
  IF ShouldSort(isProduction, isAsync) THEN SortById(list) ELSE list

(***************************************************************************)
(* What one update() call does is the subscriber's business.  A behaviour  *)
(* is [mut, w, throws]: the update may call addSub(w) or removeSub(w) on   *)
(* the Dep being notified, and may then throw.                             *)
(***************************************************************************)
Update(list, b) ==
  CASE b.mut = "add" -> addSub(list, b.w)
    [] b.mut = "remove" -> removeSub(list, b.w)
    [] OTHER -> list

\* the loop of notify(): for (i...) subs[i].update(); an exception thrown by
\* update() leaves the loop (there is no try/catch in notify)
RECURSIVE NotifyLoop(_, _, _, _, _)
NotifyLoop(order, i, cur, updated, script) ==
  IF i > Len(order) THEN [subs |-> cur, updated |-> updated, threw |-> FALSE]
  ELSE LET b == script[i]
           cur2 == Update(cur, b)
           updated2 == Append(updated, order[i])
       IN IF b.throws
          THEN [subs |-> cur2, updated |-> updated2, threw |-> TRUE]
          ELSE NotifyLoop(order, i + 1, cur2, updated2, script)

\* Dep.notify()
notify(list, isProduction, isAsync, script) ==
  NotifyLoop(NotifyOrder(list, isProduction, isAsync), 1, list, <<>>, script)

\* a script for a round over n subscribers: the update at mutAt mutates the
\* list, the update at throwAt throws (0: none does)
Script(n, mutAt, mut, w, throwAt) ==
  [k \in 1..n |->
     [mut |-> IF k = mutAt THEN mut ELSE "none",
      w |-> IF k = mutAt THEN w ELSE 0,
      throws |-> (k = throwAt)]]

NoRound ==
  [call |-> "none", ran |-> FALSE, start |-> <<>>, updated |-> <<>>, threw |-> FALSE,
   mut |-> "none", w |-> 0, mutAt |-> 0]


(***************************************************************************)
(* Values.  A JavaScript value is a record [t, v]: undefined, null, NaN,   *)
(* a number, or a reference to heap object v.                              *)
(***************************************************************************)
Undef == [t |-> "undef", v |-> 0]
Null == [t |-> "null", v |-> 0]
NaN == [t |-> "nan", v |-> 0]
Num(n) == [t |-> "num", v |-> n]
Ref(o) == [t |-> "obj", v |-> o]
\* a function, such as the ones Object.prototype holds
Fn == [t |-> "fn", v |-> 0]
\* an Observer handed back to the caller
ObVal(i) == IF i = 0 THEN Undef ELSE [t |-> "ob", v |-> i]

\* util isObject: obj !== null && typeof obj === 'object'
isObject(val) == val.t = "obj"
\* util isUndef: v === undefined || v === null
isUndef(val) == val.t \in {"undef", "null"}
\* util isPrimitive: string, number, symbol or boolean (typeof NaN is 'number')
isPrimitive(val) == val.t \in {"num", "nan"}

\* newVal === value: NaN is not equal to itself
StrictEq(a, b) == a = b /\ a.t # "nan"

\* the no-change test of reactiveSetter:
\*   newVal === value || (newVal !== newVal && value !== value)
SameValueNoNaN(newVal, value) == StrictEq(newVal, value)
SameValue(newVal, value) ==
  StrictEq(newVal, value) \/ (~StrictEq(newVal, newVal) /\ ~StrictEq(value, value))

(***************************************************************************)
(* The heap.  The objects are Objs, all of them plain extensible records *)
(* that are neither VNodes nor Vue instances.  A property is               *)
(*   [present, acc, val, layers]:                                          *)
(*   acc    - what the property was before any defineReactive: a data      *)
(*            property, a getter without setter, or a getter/setter pair;  *)
(*   val    - the stored value (the closure's val, or what the original    *)
(*            getter reads and the original setter writes);                *)
(*   layers - one [dep, childOb, shallow] per defineReactive applied to    *)
(*            it, the outermost last.  A defineReactive over a property    *)
(*            that is already reactive wraps the previous reactiveGetter   *)
(*            and reactiveSetter as its getter and setter.                 *)
(* An Observer is [value, dep, vmCount]; ob[o] is o.__ob__ (0: none).      *)
(* Dep number d (its id) has the subscriber list deps[d + 1].              *)
(***************************************************************************)
\* Spec follows the program for MaxSteps operations from its initial heap
MaxSteps == 2
\* no operation is taken that would create more than MaxDeps Deps
MaxDeps == 6
\* observe(value, true) is not taken on an Observer with vmCount = MaxVm
MaxVm == 1
\* pushTarget is not taken on a stack of MaxStack entries
MaxStack == 2

Objs == {1, 2}
\* the keys in play, in the order Object.keys lists them; ProtoKeys are those
\* that Object.prototype has
KeyOrder == <<"a", "toString">>
Keys == {KeyOrder[i] : i \in 1..Len(KeyOrder)}
ProtoKeys == {"toString"}

Absent == [present |-> FALSE, acc |-> "data", val |-> Undef, layers |-> <<>>]
Plain(acc, val) == [present |-> TRUE, acc |-> acc, val |-> val, layers |-> <<>>]

\* the number of entries of list equal to x
Count(list, x) == Cardinality({i \in 1..Len(list) : list[i] = x})

(***************************************************************************)
(* Operations are operators on an execution state st: the heap fields      *)
(* (props, ob, observers, deps), the watchers' dependency sets (wdeps,     *)
(* wnew), the ambient values read by the code (target: Dep.target, so:     *)
(* shouldObserve, prod, async), and what the running operation has done    *)
(* so far: ret / obret (the value / Observer returned by the last call),   *)
(* notified (the Deps whose notify() was called), updated (the watchers    *)
(* whose update() was called), view (the heap at each notify() call),      *)
(* threw, warned, path (the return site).                                  *)
(* throwAt says which update() call of the operation throws (0: none).     *)
(***************************************************************************)

\* Watcher.addDep(dep): the watcher keeps the set of Deps it has read in this
\* evaluation (wnew) and the set it is subscribed to (wdeps), and subscribes
\* only to a Dep that is in neither
addDep(st, w, d) ==
  IF d \in st.wnew[w] THEN st
  ELSE LET s1 == [st EXCEPT !.wnew[w] = @ \cup {d}]
       IN IF d \in st.wdeps[w] THEN s1
          ELSE [s1 EXCEPT !.deps[d + 1] = addSub(@, w)]

\* Dep.depend(): if (Dep.target) Dep.target.addDep(this)
dependDirect(st, d) ==
  IF st.target # 0 THEN [st EXCEPT !.deps[d + 1] = addSub(@, st.target)] ELSE st
depend(st, d) ==
  IF st.target # 0 THEN addDep(st, st.target, d) ELSE st

\* dep.notify() as called by the observer code, on Dep number d.  The updates
\* here do not touch the Dep; the one numbered st.throwAt in the operation throws.
\* view keeps the heap as the update() calls of this notify() find it.
Notified(st, d, res) ==
  [st EXCEPT !.notified = Append(@, d),
             !.updated = @ \o res.updated,
             !.view = Append(@, [props |-> st.props, ob |-> st.ob]),
             !.threw = res.threw]

ThrowIndex(st, n) ==
  IF (st.throwAt - Len(st.updated)) \in 1..n THEN st.throwAt - Len(st.updated) ELSE 0

Notify(st, d) ==
  Notified(st, d,
           notify(st.deps[d + 1], st.prod, st.async,
                  Script(Len(st.deps[d + 1]), 0, "none", 0,
                         ThrowIndex(st, Len(st.deps[d + 1])))))

RECURSIVE observe(_, _, _)
RECURSIVE NewObserver(_, _)
RECURSIVE walk(_, _, _)
RECURSIVE defineReactive(_, _, _, _, _, _)
RECURSIVE Getter(_, _, _, _)
RECURSIVE Setter(_, _, _, _, _)

\* does layer n of property p wrap a getter / a setter?  Layer 1 wraps what the
\* property was; a later layer wraps the reactiveGetter / reactiveSetter below it.
HasGetter(p, n) == n > 1 \/ p.acc \in {"get", "getset"}
HasSetter(p, n) == n > 1 \/ p.acc = "getset"

\* const value = getter ? getter.call(obj) : val, in layer n; the value is left in ret
CurrentValue(st, o, key, n) ==
  IF HasGetter(st.props[o][key], n) THEN Getter(st, o, key, n - 1)
  ELSE [st EXCEPT !.ret = st.props[o][key].val]

\* childOb.dep.depend() (dependArray: no array is in play)
DependChild(st, L) ==
  IF L.childOb # 0 THEN depend(st, st.observers[L.childOb].dep) ELSE st

\* if (Dep.target) { dep.depend(); if (childOb) { childOb.dep.depend() ... } }
Track(st, L) ==
  IF st.target # 0 THEN DependChild(depend(st, L.dep), L) ELSE st

\* reactiveGetter of layer n (n = 0: the property as it was before any layer)
Getter(st, o, key, n) ==
  IF n = 0 THEN [st EXCEPT !.ret = st.props[o][key].val]
  ELSE Track(CurrentValue(st, o, key, n), st.props[o][key].layers[n])

\* obj[key]: an own property, else what Object.prototype holds, else undefined
GetProp(st, o, key) ==
  IF ~st.props[o][key].present
  THEN [st EXCEPT !.ret = IF key \in ProtoKeys THEN Fn ELSE Undef]
  ELSE Getter(st, o, key, Len(st.props[o][key].layers))

\* the own enumerable keys of o, as Object.keys lists them
OwnKeys(st, o) == SelectSeq(KeyOrder, LAMBDA k : st.props[o][k].present)

\* the Observer of object o: o.__ob__ when it has one, else a new Observer when
\* shouldObserve holds (o is a plain extensible record), else none
ObserveObjectForgetful(st, o) ==
  IF st.ob[o] # 0 THEN [st EXCEPT !.obret = 0]
  ELSE IF st.so THEN NewObserver(st, o)
  ELSE [st EXCEPT !.obret = 0]
ObserveObject(st, o) ==
  IF st.ob[o] # 0 THEN [st EXCEPT !.obret = st.ob[o]]
  ELSE IF st.so THEN NewObserver(st, o)
  ELSE [st EXCEPT !.obret = 0]

\* if (asRootData && ob) ob.vmCount++
CountRoot(st, asRootData) ==
  IF asRootData /\ st.obret # 0
  THEN [st EXCEPT !.observers[st.obret].vmCount = @ + 1]
  ELSE st

\* observe(value, asRootData); the Observer (0: none) is left in obret
observe(st, val, asRootData) ==
  IF ~isObject(val) THEN [st EXCEPT !.obret = 0]
  ELSE CountRoot(ObserveObject(st, val.v), asRootData)

\* the constructor's first lines: this.dep = new Dep(); this.vmCount = 0;
\* def(value, '__ob__', this)
Attach(st, o) ==
  [st EXCEPT !.deps = Append(@, <<>>),
             !.observers = Append(@, [value |-> o, dep |-> Len(st.deps), vmCount |-> 0]),
             !.ob[o] = Len(st.observers) + 1]

Returning(st, idx) == [st EXCEPT !.obret = idx]

\* new Observer(value)
NewObserver(st, o) ==
  Returning(walk(Attach(st, o), o, OwnKeys(st, o)), Len(st.observers) + 1)

\* Observer.walk: defineReactive(obj, keys[i]) for each of Object.keys(obj)
walk(st, o, keys) ==
  IF keys = <<>> THEN st
  ELSE walk(defineReactive(st, o, Head(keys), FALSE, Undef, FALSE), o, Tail(keys))

\* const dep = new Dep()
NewDep(st) == [st EXCEPT !.deps = Append(@, <<>>)]

\* if ((!getter || setter) && arguments.length === 2) val = obj[key]; val is left in ret
InitialValue(st, o, key, hasVal, valArg) ==
  IF (~(st.props[o][key].present /\ HasGetter(st.props[o][key], Len(st.props[o][key].layers) + 1))
      \/ (st.props[o][key].present /\ HasSetter(st.props[o][key], Len(st.props[o][key].layers) + 1)))
     /\ ~hasVal
  THEN GetProp(st, o, key)
  ELSE [st EXCEPT !.ret = IF hasVal THEN valArg ELSE Undef]

\* a childOb that is computed whatever shallow says
ChildObAlways(st, val, shallow) == observe(st, val, FALSE)

\* let childOb = !shallow && observe(val)
ChildOb(st, val, shallow) ==
  IF shallow THEN [st EXCEPT !.obret = 0] ELSE observe(st, val, FALSE)

\* Object.defineProperty(obj, key, { get: reactiveGetter, set: reactiveSetter }):
\* one more layer on property p, with Dep d and the childOb left in obret
DefineProperty(st, o, key, p, d, val, shallow) ==
  [st EXCEPT !.props[o][key] =
     [present |-> TRUE,
      acc |-> p.acc,
      val |-> IF p.present /\ HasGetter(p, Len(p.layers) + 1) THEN p.val ELSE val,
      layers |-> Append(p.layers, [dep |-> d, childOb |-> st.obret, shallow |-> shallow])]]

DefineWith(st, o, key, p, d, shallow) ==
  DefineProperty(ChildOb(st, st.ret, shallow), o, key, p, d, st.ret, shallow)

\* defineReactive(obj, key, val, customSetter, shallow); hasVal says whether val
\* was passed (arguments.length > 2).  Every property here is configurable.
defineReactive(st, o, key, hasVal, valArg, shallow) ==
  DefineWith(InitialValue(NewDep(st), o, key, hasVal, valArg), o, key,
             st.props[o][key], Len(st.deps), shallow)

\* childOb = !shallow && observe(newVal)
SetChildOb(st, o, key, n) == [st EXCEPT !.props[o][key].layers[n].childOb = st.obret]

ReObserve(st, o, key, n, newVal) ==
  SetChildOb(ChildOb(st, newVal, st.props[o][key].layers[n].shallow), o, key, n)

\* if (setter) setter.call(obj, newVal); else val = newVal
Store(st, o, key, n, newVal) ==
  IF HasSetter(st.props[o][key], n) /\ n > 1 THEN Setter(st, o, key, n - 1, newVal)
  ELSE [st EXCEPT !.props[o][key].val = newVal]

\* a setter that notifies before it observes the new value
AfterStoreNotifyFirst(st, o, key, n, newVal) ==
  IF st.threw THEN st
  ELSE ReObserve(Notify(st, st.props[o][key].layers[n].dep), o, key, n, newVal)

\* after the store: childOb = ...; dep.notify()
AfterStore(st, o, key, n, newVal) ==
  IF st.threw THEN st
  ELSE Notify(ReObserve(st, o, key, n, newVal), st.props[o][key].layers[n].dep)

\* a setter without the return for a getter that has no setter
SetterBodyAlwaysStores(st, o, key, n, newVal) ==
  IF SameValue(newVal, st.ret) THEN st
  ELSE AfterStore(Store(st, o, key, n, newVal), o, key, n, newVal)

\* reactiveSetter after `value` was computed (it is in ret).  customSetter has
\* no effect on the state.
SetterBody(st, o, key, n, newVal) ==
  IF SameValue(newVal, st.ret) THEN st
  ELSE IF HasGetter(st.props[o][key], n) /\ ~HasSetter(st.props[o][key], n) THEN st
  ELSE AfterStore(Store(st, o, key, n, newVal), o, key, n, newVal)

\* reactiveSetter of layer n >= 1
Setter(st, o, key, n, newVal) ==
  SetterBody(CurrentValue(st, o, key, n), o, key, n, newVal)

\* obj[key] = val, in strict mode: through the setter of a reactive property,
\* a TypeError on a getter without setter, a new plain property when absent
Assign(st, o, key, val) ==
  IF ~st.props[o][key].present THEN [st EXCEPT !.props[o][key] = Plain("data", val)]
  ELSE IF st.props[o][key].layers # <<>>
  THEN Setter(st, o, key, Len(st.props[o][key].layers), val)
  ELSE IF st.props[o][key].acc = "get" THEN [st EXCEPT !.threw = TRUE]
  ELSE [st EXCEPT !.props[o][key].val = val]

\* the value an operation returns (nothing when it threw) and its return site
Return(st, val, path) ==
  [st EXCEPT !.ret = IF st.threw THEN Undef ELSE val, !.path = path]

Throw(st) == [st EXCEPT !.threw = TRUE]

\* process.env.NODE_ENV !== 'production' && warn(...)
Warn(st) == [st EXCEPT !.warned = ~st.prod]

\* the warning both set and del start with, in development builds
WarnNonObject(st, tgt) ==
  IF isUndef(tgt) \/ isPrimitive(tgt) THEN Warn(st) ELSE st

\* key in target, for a record: an own property or one of Object.prototype
KeyIn(st, o, key) == st.props[o][key].present \/ key \in ProtoKeys

\* target._isVue || (ob && ob.vmCount): no object here is a Vue instance
IsRootDataNever(st, o) == FALSE
IsRootData(st, o) == st.ob[o] # 0 /\ st.observers[st.ob[o]].vmCount # 0

\* the end of set: defineReactive(ob.value, key, val); ob.dep.notify()
AddReactiveSilently(st, obi, key, val) ==
  defineReactive(st, st.observers[obi].value, key, TRUE, val, FALSE)
AddReactive(st, obi, key, val) ==
  Notify(defineReactive(st, st.observers[obi].value, key, TRUE, val, FALSE),
         st.observers[obi].dep)

\* set on a record o, from `if (key in target && !(key in Object.prototype))` on
SetOnRecord(st, o, key, val) ==
  IF KeyIn(st, o, key) /\ ~(key \in ProtoKeys)
  THEN Return(Assign(st, o, key, val), val, "assign")
  ELSE IF IsRootData(st, o) THEN Return(Warn(st), val, "root")
  ELSE IF st.ob[o] = 0 THEN Return(Assign(st, o, key, val), val, "unobserved")
  ELSE Return(AddReactive(st, st.ob[o], key, val), val, "reactive")

\* set after its warning.  No array is in play, so Array.isArray(target) is
\* false; `key in target` is a TypeError when target is not an object.
SetBody(st, tgt, key, val) ==
  IF ~isObject(tgt) THEN Return(Throw(st), val, "typeerror")
  ELSE SetOnRecord(st, tgt.v, key, val)

\* set(target, key, val)
set(st, tgt, key, val) == SetBody(WarnNonObject(st, tgt), tgt, key, val)

\* delete target[key]; if (!ob) return; ob.dep.notify()
DeletedSilently(st, o) ==
  Return(st, Undef, IF st.ob[o] = 0 THEN "unobserved" ELSE "notified")
Deleted(st, o) ==
  IF st.ob[o] = 0 THEN Return(st, Undef, "unobserved")
  ELSE Return(Notify(st, st.observers[st.ob[o]].dep), Undef, "notified")

\* del on a record o, from `const ob = target.__ob__` on
DelOnRecord(st, o, key) ==
  IF IsRootData(st, o) THEN Return(Warn(st), Undef, "root")
  ELSE IF ~st.props[o][key].present THEN Return(st, Undef, "absent")
  ELSE Deleted([st EXCEPT !.props[o][key] = Absent], o)

\* del after its warning.  target.__ob__ is a TypeError on undefined and null,
\* and undefined on a primitive, which has no own property either.
DelBody(st, tgt, key) ==
  IF isUndef(tgt) THEN Return(Throw(st), Undef, "typeerror")
  ELSE IF ~isObject(tgt) THEN Return(st, Undef, "absent")
  ELSE DelOnRecord(st, tgt.v, key)

\* del(target, key)
del(st, tgt, key) == DelBody(WarnNonObject(st, tgt), tgt, key)

\* Watcher.cleanupDeps, run by Watcher.get after popTarget: unsubscribe from the
\* Deps not read in the evaluation that ends, and keep the ones read
RECURSIVE RemoveFromAll(_, _, _)
RemoveFromAll(depLists, ds, w) ==
  IF ds = {} THEN depLists
  ELSE LET d == CHOOSE x \in ds : TRUE
       IN RemoveFromAll([depLists EXCEPT ![d + 1] = removeSub(@, w)], ds \ {d}, w)

cleanupDeps(st, w) ==
  [st EXCEPT !.deps = RemoveFromAll(@, st.wdeps[w] \ st.wnew[w], w),
             !.wdeps[w] = st.wnew[w],
             !.wnew[w] = {}]

\* pushTarget(target)
pushTarget(stack, t) == [stack |-> Append(stack, t), target |-> t]

\* popTarget()
popTargetToNone(stack) == [stack |-> SubSeq(stack, 1, Len(stack) - 1), target |-> 0]
popTarget(stack) ==
  LET rest == SubSeq(stack, 1, Len(stack) - 1)
  IN [stack |-> rest, target |-> IF rest = <<>> THEN 0 ELSE rest[Len(rest)]]

(***************************************************************************)
(* The initial heap: object o holds object o + 1 in its property a, if      *)
(* there is one; the last object holds the number 1 in a, which is a data  *)
(* property, a getter without setter or a getter/setter pair.              *)
(***************************************************************************)
InitProps(acc) ==
  [o \in Objs |->
     [k \in Keys |->
        IF k # "a" THEN Absent
        ELSE IF o + 1 \in Objs THEN Plain("data", Ref(o + 1))
        ELSE Plain(acc, Num(1))]]

\* the record of an operation: its name, target, key and value arguments, what
\* it returned, and what it did; prev is the call that came before it
NoCall == [op |-> "none", tv |-> Undef, key |-> "a", v |-> Undef, path |-> "none"]
NoOp ==
  [op |-> "none", tv |-> Undef, key |-> "a", v |-> Undef, ret |-> Undef,
   threw |-> FALSE, warned |-> FALSE, path |-> "none", notified |-> <<>>,
   updated |-> <<>>, view |-> <<>>, prev |-> NoCall]
Call(l) == [op |-> l.op, tv |-> l.tv, key |-> l.key, v |-> l.v, path |-> l.path]

\* an execution state over heap fields given one by one
MkSt(p, o, obs, d, wd, wn, t, so, prod, asy, throwAt) ==
  [props |-> p, ob |-> o, observers |-> obs, deps |-> d,
   wdeps |-> wd, wnew |-> wn, target |-> t, so |-> so,
   prod |-> prod, async |-> asy, throwAt |-> throwAt,
   ret |-> Undef, obret |-> 0, notified |-> <<>>, updated |-> <<>>, view |-> <<>>,
   threw |-> FALSE, warned |-> FALSE, path |-> "none"]

\* the heap before anything is observed
RawSt(acc) ==
  MkSt(InitProps(acc), [o \in Objs |-> 0], <<>>, <<>>, [w \in WatcherIds |-> {}],
       [w \in WatcherIds |-> {}], 0, TRUE, FALSE, TRUE, 0)

\* the program starts from the raw heap, or from the heap that observe(object 1)
\* or observe(object 1, true) has left; and either outside any evaluation
\* (ev = 0) or in the evaluation of watcher ev, after pushTarget(ev)
InitObs(acc, pre, ev) ==
  \E st \in {CASE pre = "observed" -> observe(RawSt(acc), Ref(1), FALSE)
               [] pre = "root" -> observe(RawSt(acc), Ref(1), TRUE)
               [] OTHER -> RawSt(acc)} :
     /\ props = st.props
     /\ ob = st.ob
     /\ observers = st.observers
     /\ deps = st.deps
     /\ wdeps = st.wdeps
     /\ wnew = st.wnew
     /\ shouldObserve = TRUE
     /\ targetStack = IF ev = 0 THEN <<>> ELSE pushTarget(<<>>, ev).stack
     /\ target = IF ev = 0 THEN 0 ELSE pushTarget(<<>>, ev).target
     /\ saved = IF ev = 0 THEN <<>> ELSE <<0>>
     /\ steps = 0
     /\ last = NoOp

\* the keys of the on maps, in enumeration order, and the handlers a caller passes
EventKeys == <<"click", "~click">>
NoKey == [t |-> "nokey", v |-> 0]

\* no updateListeners call has been made: nothing is registered
NoListeners ==
  [on |-> [k \in {EventKeys[i] : i \in 1..Len(EventKeys)} |-> NoKey],
   oldOn |-> [k \in {EventKeys[i] : i \in 1..Len(EventKeys)} |-> NoKey],
   given |-> [k \in {EventKeys[i] : i \in 1..Len(EventKeys)} |-> NoKey],
   objs |-> <<>>, reg |-> <<>>, adds |-> <<>>, removes |-> <<>>,
   warned |-> FALSE, calls |-> 0]

\* no set(list, ...) call has been made
NoSetCall ==
  [op |-> "none", observed |-> FALSE, key |-> 0, v |-> Undef, before |-> <<>>,
   ret |-> Undef, threw |-> FALSE, notified |-> FALSE]

\* no template is being compiled and no list is in play
NoAst ==
  /\ ast = <<>>
  /\ optimized = FALSE
  /\ cells = <<>>
  /\ listeners = NoListeners
  /\ items = <<>>
  /\ setCall = NoSetCall

(***************************************************************************)
(* SpecDep.                                                                *)
(***************************************************************************)
InitDep ==
  /\ NoAst
  /\ subs = <<>>
  /\ async \in BOOLEAN
  /\ production \in BOOLEAN
  /\ round = NoRound
  /\ InitObs("data", "raw", 0)

DepAddSub(w) ==
  /\ Len(subs) < MaxSubs
  /\ subs' = addSub(subs, w)
  /\ round' = [NoRound EXCEPT !.call = "addSub", !.w = w, !.start = subs]
  /\ UNCHANGED <<optVars, async, production>>
  /\ UNCHANGED obsVars

DepRemoveSub(w) ==
  /\ subs' = removeSub(subs, w)
  /\ round' = [NoRound EXCEPT !.call = "removeSub", !.w = w, !.start = subs]
  /\ UNCHANGED <<optVars, async, production>>
  /\ UNCHANGED obsVars

DepNotify(mutAt, mut, w, throwAt) ==
  /\ mut = "add" => Len(subs) < MaxSubs
  /\ \E res \in {notify(subs, production, async,
                         Script(Len(subs), mutAt, mut, w, throwAt))} :
       \E done \in {mutAt \in 1..Len(res.updated)} :
        /\ subs' = res.subs
        /\ round' = [call |-> "notify", ran |-> TRUE, start |-> subs, updated |-> res.updated,
                     threw |-> res.threw,
                     mut |-> IF done THEN mut ELSE "none",
                     w |-> IF done THEN w ELSE 0,
                     mutAt |-> IF done THEN mutAt ELSE 0]
  /\ UNCHANGED <<optVars, async, production>>
  /\ UNCHANGED obsVars

NextDep ==
  \/ \E w \in WatcherIds : DepAddSub(w)
  \/ \E w \in WatcherIds : DepRemoveSub(w)
  \/ \E mutAt \in 0..Len(subs), mut \in {"add", "remove"}, w \in WatcherIds,
        throwAt \in 0..Len(subs) :
       DepNotify(mutAt, mut, w, throwAt)

SpecDep == InitDep /\ [][NextDep]_vars

(***************************************************************************)
(* Spec: the observer.                                                     *)
(***************************************************************************)
\* the execution state an operation starts from
St(throwAt) ==
  MkSt(props, ob, observers, deps, wdeps, wnew, target, shouldObserve, production,
       async, throwAt)

\* one more operation
Step ==
  /\ steps < MaxSteps
  /\ steps' = steps + 1

\* the heap an operation leaves, and the record of the operation
Commit(st, op, tv, key, v, ret) ==
  /\ Len(st.deps) <= MaxDeps
  /\ st.throwAt <= Len(st.updated)
  /\ props' = st.props
  /\ ob' = st.ob
  /\ observers' = st.observers
  /\ deps' = st.deps
  /\ wdeps' = st.wdeps
  /\ wnew' = st.wnew
  /\ last' = [op |-> op, tv |-> tv, key |-> key, v |-> v, ret |-> ret,
              threw |-> st.threw, warned |-> st.warned, path |-> st.path,
              notified |-> st.notified, updated |-> st.updated, view |-> st.view,
              prev |-> Call(last)]

Init ==
  /\ NoAst
  /\ subs = <<>>
  /\ round = NoRound
  /\ async = TRUE
  /\ production \in BOOLEAN
  /\ \E acc \in {"data", "get", "getset"}, pre \in {"raw", "observed", "root"},
        ev \in {0, 1} :
       InitObs(acc, pre, ev)

Observe(val, asRootData) ==
  /\ Step
  /\ asRootData /\ isObject(val) /\ ob[val.v] # 0 => observers[ob[val.v]].vmCount < MaxVm
  /\ \E st \in {observe(St(0), val, asRootData)} :
       Commit(st, "observe", val, "a", IF asRootData THEN Num(1) ELSE Num(0),
               ObVal(st.obret))
  /\ UNCHANGED <<optVars, async, production, subs, round, shouldObserve, targetStack, target, saved>>

ToggleObserving(value) ==
  /\ Step
  /\ shouldObserve' = value
  /\ last' = [NoOp EXCEPT !.op = "toggleObserving", !.prev = Call(last)]
  /\ UNCHANGED <<optVars, async, production, subs, round, targetStack, target, saved>>
  /\ UNCHANGED heapVars

PushTarget(t) ==
  /\ Step
  /\ Len(targetStack) < MaxStack
  /\ \E r \in {pushTarget(targetStack, t)} :
        /\ targetStack' = r.stack
        /\ target' = r.target
  /\ saved' = Append(saved, target)
  /\ last' = [NoOp EXCEPT !.op = "pushTarget", !.tv = Num(t), !.prev = Call(last)]
  /\ UNCHANGED <<optVars, async, production, subs, round, shouldObserve>>
  /\ UNCHANGED heapVars

\* popTarget(), followed by the cleanupDeps of the watcher whose evaluation ends
PopTarget ==
  /\ Step
  /\ targetStack # <<>>
  /\ \E r \in {popTarget(targetStack)} :
        /\ targetStack' = r.stack
        /\ target' = r.target
  /\ \E st \in {IF targetStack[Len(targetStack)] # 0
                 THEN cleanupDeps(St(0), targetStack[Len(targetStack)])
                 ELSE St(0)} :
       Commit(st, "popTarget", Num(targetStack[Len(targetStack)]), "a", Undef, Undef)
  /\ saved' = SubSeq(saved, 1, Len(saved) - 1)
  /\ UNCHANGED <<optVars, async, production, subs, round, shouldObserve>>

\* a read of o[key]
Read(o, key) ==
  /\ Step
  /\ \E st \in {GetProp(St(0), o, key)} :
       Commit(st, "read", Ref(o), key, Undef, st.ret)
  /\ UNCHANGED <<optVars, async, production, subs, round, shouldObserve, targetStack, target, saved>>

\* o[key] = val
Write(o, key, val, throwAt) ==
  /\ Step
  /\ \E st \in {Return(Assign(St(throwAt), o, key, val), val, "assign")} :
       Commit(st, "write", Ref(o), key, val, st.ret)
  /\ UNCHANGED <<optVars, async, production, subs, round, shouldObserve, targetStack, target, saved>>

Set(tv, key, val, throwAt) ==
  /\ Step
  /\ \E st \in {set(St(throwAt), tv, key, val)} :
       Commit(st, "set", tv, key, val, st.ret)
  /\ UNCHANGED <<optVars, async, production, subs, round, shouldObserve, targetStack, target, saved>>

Del(tv, key, throwAt) ==
  /\ Step
  /\ \E st \in {del(St(throwAt), tv, key)} :
       Commit(st, "del", tv, key, Undef, st.ret)
  /\ UNCHANGED <<optVars, async, production, subs, round, shouldObserve, targetStack, target, saved>>

\* defineReactive(obj, key, val, undefined, shallow), called from outside the
\* module with a value
DefineReactive(o, key, val, shallow) ==
  /\ Step
  /\ \E st \in {defineReactive(St(0), o, key, TRUE, val, shallow)} :
       Commit(st, "defineReactive", Ref(o), key, val, Undef)
  /\ UNCHANGED <<optVars, async, production, subs, round, shouldObserve, targetStack, target, saved>>

\* the values written, and the non-object targets handed to set and del
Written == {Num(1), NaN, Ref(2)}
NonObjects == {Undef, Null, Num(1)}

Next ==
  \/ \E val \in {Num(1)} \cup {Ref(o) : o \in Objs}, asRootData \in BOOLEAN :
       Observe(val, asRootData)
  \/ ToggleObserving(~shouldObserve)
  \/ \E t \in Evaluated \cup {0} : PushTarget(t)
  \/ PopTarget
  \/ \E o \in Objs, key \in Keys : Read(o, key)
  \/ \E o \in Objs, key \in Keys, val \in Written, throwAt \in 0..NumSubs :
       Write(o, key, val, throwAt)
  \/ \E o \in Objs, key \in Keys, val \in Written, throwAt \in 0..NumSubs :
       Set(Ref(o), key, val, throwAt)
  \/ \E tv \in NonObjects : Set(tv, "a", Num(1), 0)
  \/ \E o \in Objs, key \in Keys, throwAt \in 0..NumSubs : Del(Ref(o), key, throwAt)
  \/ \E tv \in NonObjects : Del(tv, "a", 0)
  \/ \E o \in Objs, key \in Keys, shallow \in BOOLEAN : DefineReactive(o, key, Ref(2), shallow)

Spec == Init /\ [][Next]_vars

(***************************************************************************)
(* SpecOpt: the static-subtree optimizer (src/compiler/optimizer.js).      *)
(* An AST is a sequence of nodes, node 1 the root.  A node is              *)
(*   [type, tag, keys, inline, owner, link, static, staticRoot,            *)
(*    staticInFor]:                                                        *)
(*   type   - 1 element, 2 expression text, 3 plain text;                  *)
(*   keys   - the own keys of the node object that hold a truthy value,    *)
(*            beyond type, tag, parent and children: pre, hasBindings,     *)
(*            if, for, once, plain;                                        *)
(*   inline - attrsMap['inline-template'] != null;                         *)
(*   owner, link - the node is the next child of owner (link "child"), or  *)
(*            the block of the next entry of owner.ifConditions (link      *)
(*            "block"); the root has owner 0;                              *)
(*   static, staticRoot, staticInFor - "undefined", "true" or "false".     *)
(***************************************************************************)
\* an AST has at most MaxNodes nodes
MaxNodes == 3

\* the tags in play: a native element, a custom component, the two built-ins
\* and template
Tags == {"div", "my-comp", "slot", "template"}

\* shared/util isBuiltInTag
isBuiltInTag(tag) == tag \in {"slot", "component"}
\* options.isReservedTag of the web platform: HTML and SVG tags
isPlatformReservedTag(tag) == tag \in {"div", "template"}
\* genStaticKeys: the keys that do not keep a node from being static
isStaticKey(k) ==
  k \in {"type", "tag", "attrsList", "attrsMap", "plain", "parent", "children",
         "attrs", "start", "end", "rawAttrsMap", "staticClass", "staticStyle"}

Text(type) ==
  [type |-> type, tag |-> "", keys |-> {}, inline |-> FALSE]
Element(tag, keys, inline) ==
  [type |-> 1, tag |-> tag, keys |-> keys, inline |-> inline]

\* the nodes a parsed template is made of here
Kinds ==
  {Text(3), Text(2),
   Element("div", {"plain"}, FALSE),
   Element("div", {"hasBindings"}, FALSE),
   Element("div", {"for"}, FALSE),
   Element("div", {"if"}, FALSE),
   Element("div", {"for", "if"}, FALSE),
   Element("div", {"once"}, FALSE),
   Element("div", {"pre"}, FALSE),
   Element("my-comp", {"plain"}, FALSE),
   Element("my-comp", {"pre"}, FALSE),
   Element("my-comp", {"plain"}, TRUE),
   Element("template", {"for"}, FALSE),
   Element("template", {"plain"}, FALSE),
   Element("slot", {"plain"}, FALSE)}

Node(kind, owner, link) ==
  [type |-> kind.type, tag |-> kind.tag, keys |-> kind.keys, inline |-> kind.inline,
   owner |-> owner, link |-> link,
   static |-> "undefined", staticRoot |-> "undefined", staticInFor |-> "undefined"]

\* the trees of k nodes: every node but the root hangs under an earlier element,
\* as a child or as a conditional block; the owner of a block carries the
\* conditional directive and is not itself a block
Owners(k) ==
  {o \in [1..k -> 0..k] : \A n \in 1..k : IF n = 1 THEN o[n] = 0 ELSE o[n] \in 1..(n - 1)}
Links(k) ==
  {l \in [1..k -> {"root", "child", "block"}] : \A n \in 1..k : (l[n] = "root") <=> (n = 1)}
WellFormed(kind, owner, link, k) ==
  \A n \in 2..k :
    /\ kind[owner[n]].type = 1
    /\ link[n] = "block" =>
         /\ link[owner[n]] # "block"
         /\ "if" \in kind[owner[n]].keys
         /\ kind[n].type = 1
Asts(k) ==
  {[n \in 1..k |-> Node(kind[n], owner[n], link[n])] :
     <<kind, owner, link>> \in
       {t \in [1..k -> Kinds] \X Owners(k) \X Links(k) :
          WellFormed(t[1], t[2], t[3], k)}}

\* node.children, and the blocks of node.ifConditions[1..], in order
Hanging(a, n, link) ==
  SelectSeq([i \in 1..Len(a) |-> i], LAMBDA m : a[m].owner = n /\ a[m].link = link)
Children(a, n) == Hanging(a, n, "child")
Blocks(a, n) == Hanging(a, n, "block")

\* node.parent: the element the node is a child of; a conditional block has the
\* parent of the element whose ifConditions list it
Parent(a, n) ==
  IF a[n].link = "block" THEN a[a[n].owner].owner ELSE a[n].owner

Flag(b) == IF b THEN "true" ELSE "false"

\* a test that any loop above the node satisfies
RECURSIVE isBelowAnyFor(_, _)
isBelowAnyFor(a, n) ==
  IF Parent(a, n) = 0 THEN FALSE
  ELSE IF "for" \in a[Parent(a, n)].keys THEN TRUE
  ELSE isBelowAnyFor(a, Parent(a, n))

RECURSIVE isDirectChildOfTemplateFor(_, _)
isDirectChildOfTemplateFor(a, n) ==
  IF Parent(a, n) = 0 THEN FALSE
  ELSE IF a[Parent(a, n)].tag # "template" THEN FALSE
  ELSE IF "for" \in a[Parent(a, n)].keys THEN TRUE
  ELSE isDirectChildOfTemplateFor(a, Parent(a, n))

isStatic(a, n) ==
  IF a[n].type = 2 THEN FALSE
  ELSE IF a[n].type = 3 THEN TRUE
  ELSE \/ "pre" \in a[n].keys
       \/ /\ "hasBindings" \notin a[n].keys
          /\ "if" \notin a[n].keys
          /\ "for" \notin a[n].keys
          /\ ~isBuiltInTag(a[n].tag)
          /\ isPlatformReservedTag(a[n].tag)
          /\ ~isDirectChildOfTemplateFor(a, n)
          /\ \A k \in a[n].keys : isStaticKey(k)

\* a first pass that takes no element for a component
IsComponentNever(a, n) == FALSE

\* the test under which markStatic leaves the children of an element alone
IsComponent(a, n) ==
  /\ ~isPlatformReservedTag(a[n].tag)
  /\ a[n].tag # "slot"
  /\ ~a[n].inline

RECURSIVE markStatic(_, _)
RECURSIVE MarkStaticEach(_, _, _)

\* a loop body that leaves node.static as it is
DemoteNever(a, n, c) == a

\* if (!child.static) node.static = false
Demote(a, n, c) ==
  IF a[c].static # "true" THEN [a EXCEPT ![n].static = "false"] ELSE a

\* the two loops of markStatic, over the children and over the blocks
MarkStaticEach(a, n, list) ==
  IF list = <<>> THEN a
  ELSE MarkStaticEach(Demote(markStatic(a, Head(list)), n, Head(list)), n, Tail(list))

markStatic(a, n) ==
  IF a[n].type # 1 \/ IsComponent(a, n)
  THEN [a EXCEPT ![n].static = Flag(isStatic(a, n))]
  ELSE MarkStaticEach(
         MarkStaticEach([a EXCEPT ![n].static = Flag(isStatic(a, n))], n, Children(a, n)),
         n, Blocks(a, n))

RECURSIVE markStaticRoots(_, _, _)
RECURSIVE MarkRootsEach(_, _, _)

MarkRootsEach(a, list, isInFor) ==
  IF list = <<>> THEN a
  ELSE MarkRootsEach(markStaticRoots(a, Head(list), isInFor), Tail(list), isInFor)

\* if (node.static || node.once) node.staticInFor = isInFor
MarkInFor(a, n, isInFor) ==
  IF a[n].static = "true" \/ "once" \in a[n].keys
  THEN [a EXCEPT ![n].staticInFor = Flag(isInFor)]
  ELSE a

\* a test without the exception for a single plain-text child
QualifiesAsRootAnyChild(a, n) ==
  /\ a[n].static = "true"
  /\ Children(a, n) # <<>>

\* the test of markStaticRoots for a static root
QualifiesAsRoot(a, n) ==
  /\ a[n].static = "true"
  /\ Children(a, n) # <<>>
  /\ ~(Len(Children(a, n)) = 1 /\ a[Children(a, n)[1]].type = 3)

\* the walk below an element that is not a static root: the children are in a
\* loop when the element is or has a loop directive, the blocks when it is
Descend(a, n, isInFor) ==
  MarkRootsEach(
    MarkRootsEach([a EXCEPT ![n].staticRoot = "false"], Children(a, n),
                  isInFor \/ "for" \in a[n].keys),
    Blocks(a, n), isInFor)

\* a walk that goes on below a static root
MarkRootAndDescend(a, n, isInFor) ==
  IF QualifiesAsRoot(a, n)
  THEN [Descend(a, n, isInFor) EXCEPT ![n].staticRoot = "true"]
  ELSE Descend(a, n, isInFor)

MarkRoot(a, n, isInFor) ==
  IF QualifiesAsRoot(a, n) THEN [a EXCEPT ![n].staticRoot = "true"]
  ELSE Descend(a, n, isInFor)

markStaticRoots(a, n, isInFor) ==
  IF a[n].type # 1 THEN a
  ELSE MarkRoot(MarkInFor(a, n, isInFor), n, isInFor)

\* optimize(root, options): nothing without a root
optimize(a) ==
  IF a = <<>> THEN a ELSE markStaticRoots(markStatic(a, 1), 1, FALSE)

InitOpt ==
  /\ cells = <<>>
  /\ listeners = NoListeners
  /\ items = <<>>
  /\ setCall = NoSetCall
  /\ subs = <<>>
  /\ round = NoRound
  /\ async = TRUE
  /\ production = FALSE
  /\ InitObs("data", "raw", 0)
  /\ optimized = FALSE
  /\ \E k \in 0..MaxNodes : ast \in Asts(k)

\* the compiler runs optimize once on the AST the parser produced
Optimize ==
  /\ ~optimized
  /\ ast' = optimize(ast)
  /\ optimized' = TRUE
  /\ UNCHANGED <<items, setCall, cells, listeners, async, production, subs, round>>
  /\ UNCHANGED obsVars

NextOpt == Optimize

SpecOpt == InitOpt /\ [][NextOpt]_vars

(***************************************************************************)
(* SpecList: set(target, key, val) on a list.  The list holds numbers; a   *)
(* slot never written is a hole.  A list is observed or not for good       *)
(* (setCall.observed); the observed list has an Observer whose Dep has the *)
(* subscribers subs, and its splice is the intercepted one.                *)
(***************************************************************************)
\* the longest list at the start, and the largest index handed to set
MaxLen == 2
MaxIndex == 3

Hole == [t |-> "hole", v |-> 0]

\* util isValidArrayIndex(val): a non-negative finite integer
isValidArrayIndex(key) == key \in Nat

\* target.length = n
SetLength(l, n) ==
  IF n <= Len(l) THEN SubSeq(l, 1, n) ELSE l \o [i \in 1..(n - Len(l)) |-> Hole]

\* Array.prototype.splice(start, deleteCount, ...vals), for start >= 0
splice(l, start, deleteCount, vals) ==
  IF start >= Len(l) THEN l \o vals
  ELSE SubSeq(l, 1, start) \o vals
       \o SubSeq(l, start + 1 + (IF deleteCount <= Len(l) - start THEN deleteCount
                                ELSE Len(l) - start),
                 Len(l))

\* target.length = Math.max(target.length, key); target.splice(key, 1, val)
SetOnList(l, key, val) ==
  splice(SetLength(l, IF Len(l) >= key THEN Len(l) ELSE key), key, 1, <<val>>)

InitList ==
  /\ cells = <<>>
  /\ listeners = NoListeners
  /\ ast = <<>>
  /\ optimized = FALSE
  /\ \E observed \in BOOLEAN : setCall = [NoSetCall EXCEPT !.observed = observed]
  /\ \E n \in 0..MaxLen : items \in [1..n -> {Num(1), Num(2)}]
  /\ subs \in {<<>>, <<1>>, <<1, 2>>}
  /\ round = NoRound
  /\ async = TRUE
  /\ production \in BOOLEAN
  /\ InitObs("data", "raw", 0)

\* set(list, key, val) with a valid index.  On an observed list splice is the
\* intercepted method: it splices, observes what was inserted (a number here:
\* observe returns at once) and calls notify() on the Dep of the list's Observer;
\* an update() that throws ends notify(), splice and set.
SetOnObserved(key, val, throwAt) ==
  /\ setCall.observed
  /\ Len(items) <= MaxIndex
  /\ isValidArrayIndex(key)
  /\ items' = SetOnList(items, key, val)
  /\ \E res \in {notify(subs, production, async,
                         Script(Len(subs), 0, "none", 0, throwAt))} :
       /\ subs' = res.subs
       /\ round' = [NoRound EXCEPT !.call = "notify", !.ran = TRUE, !.start = subs,
                                   !.updated = res.updated, !.threw = res.threw]
       /\ setCall' = [op |-> "set", observed |-> TRUE, key |-> key, v |-> val,
                      before |-> items,
                      ret |-> IF res.threw THEN Undef ELSE val,
                      threw |-> res.threw, notified |-> TRUE]
  /\ UNCHANGED <<ast, optimized, cells, listeners, async, production>>
  /\ UNCHANGED obsVars

\* the same call on a list that has no Observer: the native splice
SetOnUnobserved(key, val) ==
  /\ ~setCall.observed
  /\ Len(items) <= MaxIndex
  /\ isValidArrayIndex(key)
  /\ items' = SetOnList(items, key, val)
  /\ setCall' = [op |-> "set", observed |-> FALSE, key |-> key, v |-> val,
                 before |-> items, ret |-> val, threw |-> FALSE, notified |-> FALSE]
  /\ UNCHANGED <<ast, optimized, cells, listeners, async, production, subs, round>>
  /\ UNCHANGED obsVars

NextList ==
  \/ \E key \in 0..MaxIndex, val \in {Num(1), Num(2)}, throwAt \in 0..Len(subs) :
       SetOnObserved(key, val, throwAt)
  \/ \E key \in 0..MaxIndex, val \in {Num(1), Num(2)} :
       SetOnUnobserved(key, val)

SpecList == InitList /\ [][NextList]_vars

(***************************************************************************)
(* SpecArr: a read of a reactive property that holds an observed list.     *)
(* cells[1] is the list; every other cell is an element of an earlier list *)
(* or the value of a property of an earlier record: a list, a record or a  *)
(* number.  A list or record may have an Observer, whose Dep has the id of *)
(* the cell; the Dep of the property itself has id 0.                      *)
(***************************************************************************)
MaxCells == 3

Cell(kind, owner, observed) == [kind |-> kind, owner |-> owner, observed |-> observed]

\* the heaps of k cells
Heaps(k) ==
  {h \in [1..k -> {Cell(kind, owner, observed) :
                     kind \in {"list", "record", "num"}, owner \in 0..k,
                     observed \in BOOLEAN}] :
     /\ h[1] = Cell("list", 0, TRUE)
     /\ \A i \in 2..k :
          /\ h[i].owner \in 1..(i - 1)
          /\ h[h[i].owner].kind # "num"
          /\ h[i].kind = "num" => ~h[i].observed}

\* value[0], value[1], ... of the list in cell i (for a record: the values of
\* its properties)
ElementsOf(cs, i) ==
  SelectSeq([j \in 1..Len(cs) |-> j], LAMBDA j : cs[j].owner = i)

RECURSIVE dependArray(_, _, _)
RECURSIVE dependArrayFlat(_, _, _)

\* a dependArray that does not go into the elements that are lists
dependArrayFlat(st, cs, list) ==
  IF list = <<>> THEN st
  ELSE dependArrayFlat(IF cs[Head(list)].observed THEN depend(st, Head(list)) ELSE st,
                       cs, Tail(list))

\* e && e.__ob__ && e.__ob__.dep.depend()
DependOb(st, cs, e) == IF cs[e].observed THEN depend(st, e) ELSE st

\* the body of the loop of dependArray for element e
DependElement(st, cs, e) ==
  IF cs[e].kind = "list" THEN dependArray(DependOb(st, cs, e), cs, ElementsOf(cs, e))
  ELSE DependOb(st, cs, e)

\* dependArray(value), over the elements that are left
dependArray(st, cs, list) ==
  IF list = <<>> THEN st
  ELSE dependArray(DependElement(st, cs, Head(list)), cs, Tail(list))

\* reactiveGetter of the property: dep.depend(); childOb.dep.depend();
\* dependArray(value), all under Dep.target
GetList(st, cs) ==
  IF st.target # 0
  THEN dependArray(depend(depend(st, 0), 1), cs, ElementsOf(cs, 1))
  ELSE st

InitArr ==
  /\ listeners = NoListeners
  /\ ast = <<>>
  /\ optimized = FALSE
  /\ items = <<>>
  /\ setCall = NoSetCall
  /\ subs = <<>>
  /\ round = NoRound
  /\ async = TRUE
  /\ production = FALSE
  /\ \E k \in 1..MaxCells : cells \in Heaps(k)
  /\ props = InitProps("data")
  /\ ob = [o \in Objs |-> 0]
  /\ observers = <<>>
  /\ deps = [d \in 1..(Len(cells) + 1) |-> <<>>]
  /\ wdeps = [w \in WatcherIds |-> {}]
  /\ wnew = [w \in WatcherIds |-> {}]
  /\ shouldObserve = TRUE
  /\ \E t \in {0} \cup Evaluated :
       /\ target = t
       /\ targetStack = IF t = 0 THEN <<>> ELSE pushTarget(<<>>, t).stack
       /\ saved = IF t = 0 THEN <<>> ELSE <<0>>
  /\ steps = 0
  /\ last = NoOp

\* a read of the property that holds the list
ReadList ==
  /\ Step
  /\ \E st \in {GetList(St(0), cells)} :
       /\ deps' = st.deps
       /\ wdeps' = st.wdeps
       /\ wnew' = st.wnew
  /\ last' = [NoOp EXCEPT !.op = "read", !.prev = Call(last)]
  /\ UNCHANGED <<optVars, async, production, subs, round, props, ob, observers,
                 shouldObserve, targetStack, target, saved>>

NextArr == ReadList

SpecArr == InitArr /\ [][NextArr]_vars

(***************************************************************************)
(* SpecEv: updateListeners(on, oldOn, add, remove, createOnceHandler, vm), *)
(* called again and again with the previous on as oldOn.  A value of a map *)
(* is undefined, a handler function of the caller, or a function object    *)
(* made here: objs[i] is an invoker (fns: what it calls) or what           *)
(* createOnceHandler returned for an invoker (handler: that invoker).      *)
(***************************************************************************)
MaxCalls == 3
NumFns == 2

\* a function made by createFnInvoker or createOnceHandler: objs[i]
FnObj(i) == [t |-> "fnobj", v |-> i]

\* normalizeEvent(name): the name without its modifier marks, and the marks
normalizeEvent(name) ==
  [name |-> IF name = "~click" THEN "click" ELSE name,
   once |-> (name = "~click"), capture |-> FALSE, passive |-> FALSE]

\* map[name]: undefined for a key the map does not have
Entry(map, name) == IF map[name] = NoKey THEN Undef ELSE map[name]

\* for (name in map)
ForIn(map) == SelectSeq(EventKeys, LAMBDA k : map[k] # NoKey)

\* createFnInvoker(fns, vm): a new invoker with invoker.fns = fns
createFnInvoker(objs, fns) == Append(objs, [kind |-> "invoker", fns |-> fns, handler |-> 0])

\* createOnceHandler(name, handler, capture): a new function that calls handler
\* and takes itself off; it has no fns of its own
createOnceHandler(objs, handler) ==
  Append(objs, [kind |-> "once", fns |-> Undef, handler |-> handler.v])

\* add(name, handler, capture, passive, params); key is the key of the on map
\* the registration came from
add(reg, name, handler, capture, key) ==
  Append(reg, [name |-> name, handler |-> handler, capture |-> capture, key |-> key])

\* remove(name, handler, capture): the first registration of handler under name
Unregister(reg, name, handler, capture) ==
  IF \E i \in 1..Len(reg) : reg[i].name = name /\ reg[i].handler = handler /\ reg[i].capture = capture
  THEN SelectSeq([i \in 1..Len(reg) |-> IF i = (CHOOSE j \in 1..Len(reg) :
                                                  /\ reg[j].name = name /\ reg[j].handler = handler
                                                  /\ reg[j].capture = capture
                                                  /\ \A h \in 1..(j - 1) :
                                                       ~(reg[h].name = name /\ reg[h].handler = handler
                                                         /\ reg[h].capture = capture))
                                        THEN NoKey ELSE reg[i]],
                 LAMBDA r : r # NoKey)
  ELSE reg

\* if (isUndef(cur.fns)) cur = on[name] = createFnInvoker(cur, vm)
WrapInvoker(e, name) ==
  IF e.on[name].t = "fn"
  THEN [e EXCEPT !.objs = createFnInvoker(@, e.on[name]), !.on[name] = FnObj(Len(e.objs) + 1)]
  ELSE e

\* if (isTrue(event.once)) cur = on[name] = createOnceHandler(event.name, cur, event.capture)
WrapOnce(e, name) ==
  IF normalizeEvent(name).once
  THEN [e EXCEPT !.objs = createOnceHandler(@, e.on[name]), !.on[name] = FnObj(Len(e.objs) + 1)]
  ELSE e

\* add(event.name, cur, event.capture, event.passive, event.params)
Register(e, name) ==
  [e EXCEPT !.reg = add(@, normalizeEvent(name).name, e.on[name],
                        normalizeEvent(name).capture, name),
            !.adds = Append(@, name)]

\* the body of the first loop: cur undefined is warned about; no old entry:
\* wrap and add; cur !== old: old.fns = cur; on[name] = old
UpdateName(e, name) ==
  IF isUndef(e.on[name]) THEN [e EXCEPT !.warned = ~production]
  ELSE IF isUndef(Entry(e.oldOn, name))
  THEN Register(WrapOnce(WrapInvoker(e, name), name), name)
  ELSE IF e.on[name] # e.oldOn[name]
  THEN [e EXCEPT !.objs[e.oldOn[name].v].fns = e.on[name], !.on[name] = e.oldOn[name]]
  ELSE e

RECURSIVE UpdateEach(_, _)
UpdateEach(e, names) ==
  IF names = <<>> THEN e ELSE UpdateEach(UpdateName(e, Head(names)), Tail(names))

\* the body of the second loop
RemoveName(e, name) ==
  IF isUndef(Entry(e.on, name))
  THEN [e EXCEPT !.reg = Unregister(@, normalizeEvent(name).name, Entry(e.oldOn, name),
                                    normalizeEvent(name).capture),
                 !.removes = Append(@, name)]
  ELSE e

RECURSIVE RemoveEach(_, _)
RemoveEach(e, names) ==
  IF names = <<>> THEN e ELSE RemoveEach(RemoveName(e, Head(names)), Tail(names))

updateListeners(e) == RemoveEach(UpdateEach(e, ForIn(e.on)), ForIn(e.oldOn))

\* the handlers of the caller that run when function h is invoked
RECURSIVE Invoked(_, _)
Invoked(objs, h) ==
  IF h.t = "fn" THEN <<h.v>>
  ELSE IF h.t # "fnobj" THEN <<>>
  ELSE IF objs[h.v].kind = "once" THEN Invoked(objs, FnObj(objs[h.v].handler))
  ELSE Invoked(objs, objs[h.v].fns)

InitEv ==
  /\ ast = <<>>
  /\ optimized = FALSE
  /\ cells = <<>>
  /\ items = <<>>
  /\ setCall = NoSetCall
  /\ listeners = NoListeners
  /\ subs = <<>>
  /\ round = NoRound
  /\ async = TRUE
  /\ production \in BOOLEAN
  /\ InitObs("data", "raw", 0)

\* updateListeners(on, oldOn, ...) with the on of the previous call as oldOn;
\* the caller gives each key a handler of its own, undefined, the value the
\* key had, or leaves the key out
UpdateListeners(on) ==
  /\ listeners.calls < MaxCalls
  /\ \E e \in {updateListeners([listeners EXCEPT !.on = on, !.oldOn = listeners.on,
                                                  !.given = on, !.adds = <<>>,
                                                  !.removes = <<>>, !.warned = FALSE])} :
       listeners' = [e EXCEPT !.calls = @ + 1]
  /\ UNCHANGED <<ast, optimized, items, setCall, cells, async, production, subs, round>>
  /\ UNCHANGED obsVars

NextEv ==
  \E on \in [{EventKeys[i] : i \in 1..Len(EventKeys)} ->
               {NoKey, Undef} \cup {[t |-> "fn", v |-> f] : f \in 1..NumFns}
               \cup {FnObj(i) : i \in 1..Len(listeners.objs)}] :
    /\ \A k \in DOMAIN on : on[k].t = "fnobj" => on[k] = listeners.on[k]
    /\ UpdateListeners(on)

SpecEv == InitEv /\ [][NextEv]_vars

(***************************************************************************)
(* Properties of Dep.notify(), checked under SpecDep.  round records the   *)
(* last notify(): the subscriber list it started from (start) and the      *)
(* subscribers whose update() it called, in call order (updated).          *)
(***************************************************************************)
Ascending(list) == \A i \in 1..(Len(list) - 1) : list[i] <= list[i + 1]

\* C1: notify() calls update() exactly once on each entry of the subscriber
\* list as it was when notify() began, whatever the updates of the round add
\* to or remove from the list.
C1_EveryStartEntryUpdatedOnce ==
  round.ran => \A w \in WatcherIds : Count(round.updated, w) = Count(round.start, w)

\* C2: with config.async = false notify() calls update() in ascending id order,
\* whatever the insertion order; with config.async = true it calls them in
\* insertion order.
C2_SyncAscendingAsyncInsertion ==
  round.ran =>
    IF ~async THEN Ascending(round.updated)
    ELSE round.updated = SubSeq(round.start, 1, Len(round.updated))

\* C3: an update() that throws does not keep notify() from calling update() on
\* the subscribers after it: every entry of the round is still updated.
C3_ThrowDoesNotEndRound ==
  round.ran /\ round.threw => Len(round.updated) = Len(round.start)

(***************************************************************************)
(* Properties of the observer, checked under Spec.  A step of Spec is one  *)
(* operation; last' records it.                                            *)
(***************************************************************************)
StepOf(op) == steps' = steps + 1 /\ last'.op = op

\* the property an operation recorded in l was applied to, in heap h
PropOf(h, l) == h[l.tv.v][l.key]
Reactive(p) == p.present /\ p.layers # <<>>
LayerDeps(p) == {p.layers[n].dep : n \in 1..Len(p.layers)}

\* C4: after each popTarget, Dep.target is what it was just before the matching
\* pushTarget, and none once the stack is empty; a read registers the watcher
\* that is Dep.target at that moment with the Deps it reads, and no other.
C4_PopStep ==
  StepOf("popTarget") =>
    /\ target' = saved[Len(saved)]
    /\ targetStack' = <<>> => target' = 0
C4_ReadStep ==
  StepOf("read") /\ target # 0 /\ Reactive(PropOf(props, last')) =>
    /\ LayerDeps(PropOf(props, last')) \subseteq wnew'[target]
    /\ \A w \in WatcherIds \ {target} :
         /\ wnew'[w] = wnew[w]
         /\ wdeps'[w] = wdeps[w]
         /\ \A d \in 1..Len(deps) : Count(deps'[d], w) = Count(deps[d], w)
C4_PopRestoresTarget == [][C4_PopStep /\ C4_ReadStep]_vars

\* watcher 2 was evaluated while watcher 1 was, and its pop made 1 active again
C4_Witness ==
  /\ last.op = "popTarget"
  /\ last.tv = Num(2)
  /\ target = 1
  /\ targetStack = <<1>>

\* C5: a write to a reactive property of the value it holds (strictly equal,
\* or NaN over NaN) calls notify() on no Dep and leaves the stored value and
\* the child observer as they were.
C5_WriteStep ==
  /\ steps' = steps + 1
  /\ last'.op \in {"write", "set"}
  /\ last'.path = "assign"
  /\ Reactive(PropOf(props, last'))
  /\ last'.v = PropOf(props, last').val
C5_SameValueWriteIsSilent ==
  [][C5_WriteStep =>
       /\ last'.notified = <<>>
       /\ PropOf(props', last') = PropOf(props, last')]_vars

\* NaN was written to a reactive property that held NaN
C5_Witness ==
  /\ last.op = "write"
  /\ last.v = NaN
  /\ last.prev.op = "write"
  /\ last.prev.v = NaN
  /\ last.prev.tv = last.tv
  /\ last.prev.key = last.key
  /\ Reactive(PropOf(props, last))
  /\ PropOf(props, last).val = NaN
  /\ last.notified = <<>>

\* C6: a read of a reactive property while a watcher is Dep.target leaves that
\* watcher exactly once in the subscriber list of the property's Dep, however
\* often it reads it; a read with no Dep.target changes no subscriber list.
C6_NoDuplicate ==
  \A d \in 1..Len(deps) : \A w \in WatcherIds : Count(deps[d], w) <= 1
C6_ReadStep ==
  StepOf("read") /\ Reactive(PropOf(props, last')) =>
    IF target # 0
    THEN \A d \in LayerDeps(PropOf(props, last')) : Count(deps'[d + 1], target) = 1
    ELSE deps' = deps
C6_SubscribedExactlyOnce == []C6_NoDuplicate /\ [][C6_ReadStep]_vars

\* watcher 1 read the same reactive property twice in a row
C6_Witness ==
  /\ last.op = "read"
  /\ last.prev.op = "read"
  /\ last.prev.tv = last.tv
  /\ last.prev.key = last.key
  /\ target = 1
  /\ Reactive(PropOf(props, last))
  /\ \A d \in LayerDeps(PropOf(props, last)) : Count(deps[d + 1], 1) = 1

\* C7 as stated: after any observe(value) calls on a record there is exactly
\* one Observer for it, and every call after the first returns that Observer
\* without walking the record again or creating Deps.
C7_ObserveStep == StepOf("observe") /\ isObject(last'.tv)
C7_Unchanged ==
  /\ ob' = ob
  /\ props' = props
  /\ deps' = deps
  /\ Len(observers') = Len(observers)
C7_AtMostOne ==
  /\ \A i, j \in 1..Len(observers) : observers[i].value = observers[j].value => i = j
  /\ \A o \in Objs : ob[o] # 0 => ob[o] \in 1..Len(observers) /\ observers[ob[o]].value = o
C7_ObserveIdempotentStep ==
  C7_ObserveStep =>
    /\ last'.ret = ObVal(ob'[last'.tv.v])
    /\ ob[last'.tv.v] # 0 => C7_Unchanged
    /\ ob[last'.tv.v] = 0 => (ob'[last'.tv.v] # 0 <=> shouldObserve)
C8_SetStep ==
  /\ StepOf("set")
  /\ isObject(last'.tv)
  /\ ob[last'.tv.v] # 0
  /\ observers[ob[last'.tv.v]].vmCount = 0
  /\ ~PropOf(props, last').present
C8_LaterWriteStep ==
  /\ StepOf("write")
  /\ last.op = "set"
  /\ last.path = "reactive"
  /\ last'.tv = last.tv
  /\ last'.key = last.key
  /\ Len(PropOf(props, last').layers) = 1
  /\ PropOf(props, last').val = last.v
  /\ last'.v # last.v
C8_SetDefinesReactive ==
  [][/\ C8_SetStep =>
          /\ last'.path = "reactive"
          /\ PropOf(props', last').present
          /\ PropOf(props', last').val = last'.v
          /\ Len(PropOf(props', last').layers) = 1
          /\ last'.notified = <<observers[ob[last'.tv.v]].dep>>
     /\ C8_LaterWriteStep =>
          /\ PropOf(props, last').layers[1].dep
               \in {last'.notified[i] : i \in 1..Len(last'.notified)}
          /\ last'.threw \/ PropOf(props', last').val = last'.v]_vars

\* a key was added by set, and the write that followed notified the key's Dep
C8_Witness ==
  /\ last.op = "write"
  /\ last.prev.op = "set"
  /\ last.prev.path = "reactive"
  /\ last.prev.tv = last.tv
  /\ last.prev.key = last.key
  /\ last.prev.v # last.v
  /\ Len(PropOf(props, last).layers) = 1
  /\ PropOf(props, last).val = last.v
  /\ PropOf(props, last).layers[1].dep \in {last.notified[i] : i \in 1..Len(last.notified)}

\* C9: set(obj, newKey, v) on a record whose Observer has vmCount > 0 and that
\* has no own newKey creates no key, calls notify() on no Dep, and returns v.
C9_SetStep ==
  /\ StepOf("set")
  /\ isObject(last'.tv)
  /\ ob[last'.tv.v] # 0
  /\ observers[ob[last'.tv.v]].vmCount > 0
  /\ ~PropOf(props, last').present
C9_SetOnRootRejected ==
  [][C9_SetStep =>
       /\ props' = props
       /\ deps' = deps
       /\ last'.notified = <<>>
       /\ ~last'.threw
       /\ last'.ret = last'.v]_vars

\* set was called with a new key on root data and changed nothing
C9_Witness ==
  /\ last.op = "set"
  /\ last.path = "root"
  /\ isObject(last.tv)
  /\ observers[ob[last.tv.v]].vmCount > 0
  /\ ~PropOf(props, last).present
  /\ last.ret = last.v

\* C10: set and del called with an undefined, null or primitive target do not
\* throw; they warn in a development build and are silent in a production one.
C10_NonObjectTargetNeverThrows ==
  last.op \in {"set", "del"} /\ ~isObject(last.tv) =>
    /\ ~last.threw
    /\ last.warned = ~production

\* C11: del(target, key) on a record changes and notifies nothing when key is
\* not an own property, and when target is root data; otherwise it removes the
\* key, and calls notify() exactly once, on the Observer's Dep, when the record
\* has an Observer, and on no Dep when it has none.
C11_DelStep == StepOf("del") /\ isObject(last'.tv)
C11_OthersKept ==
  \A o \in Objs : \A k \in Keys :
    (o # last'.tv.v \/ k # last'.key) => props'[o][k] = props[o][k]
C11_DelOnRecord ==
  [][C11_DelStep =>
       IF \/ ~PropOf(props, last').present
          \/ ob[last'.tv.v] # 0 /\ observers[ob[last'.tv.v]].vmCount > 0
       THEN props' = props /\ last'.notified = <<>> /\ deps' = deps
       ELSE /\ ~PropOf(props', last').present
            /\ C11_OthersKept
            /\ last'.notified =
                 IF ob[last'.tv.v] = 0 THEN <<>>
                 ELSE <<observers[ob[last'.tv.v]].dep>>]_vars

\* an own key of an observed record that is not root data was deleted
C11_Witness ==
  /\ last.op = "del"
  /\ last.path = "notified"
  /\ isObject(last.tv)
  /\ ob[last.tv.v] # 0
  /\ ~PropOf(props, last).present
  /\ last.notified = <<observers[ob[last.tv.v]].dep>>

\* C16: a write of a different value to a reactive property stores the value,
\* observes it and only then notifies the property's Dep: at every notify()
\* of the write the property holds the new value and the layer's childOb is
\* the new value's Observer; a read that follows registers the running
\* subscriber on the whole-object Dep of the new value.
C16_WriteStep ==
  /\ StepOf("write")
  /\ Reactive(PropOf(props, last'))
  /\ PropOf(props, last').acc # "get"
  /\ PropOf(props, last').val # last'.v
C16_ViewOf(i) == last'.view[i]
C16_AtNotify(i) ==
  /\ last'.notified[i] = PropOf(props, last').layers[i].dep
  /\ PropOf(C16_ViewOf(i).props, last').val = last'.v
  /\ ~PropOf(props, last').layers[i].shallow =>
       /\ PropOf(C16_ViewOf(i).props, last').layers[i].childOb =
            IF isObject(last'.v) THEN C16_ViewOf(i).ob[last'.v.v] ELSE 0
       /\ isObject(last'.v) /\ shouldObserve => C16_ViewOf(i).ob[last'.v.v] # 0
C16_ReadStep ==
  /\ StepOf("read")
  /\ last.op = "write" /\ ~last.threw
  /\ last'.tv = last.tv /\ last'.key = last.key
  /\ target # 0
  /\ Reactive(PropOf(props, last))
  /\ ~PropOf(props, last).layers[Len(PropOf(props, last).layers)].shallow
  /\ PropOf(props, last).val = last.v
  /\ isObject(last.v) /\ ob[last.v.v] # 0
C18_ObserveStep ==
  /\ StepOf("observe")
  /\ isObject(last'.tv)
  /\ ob[last'.tv.v] = 0
  /\ ob'[last'.tv.v] # 0
C18_Held(k) == props[last'.tv.v][k]
C18_Top(h) == PropOf(h, last').layers[Len(PropOf(h, last').layers)]
C20_PlainWriteIffOwn ==
  [][StepOf("set") /\ isObject(last'.tv) =>
       IF PropOf(props, last').present
       THEN /\ last'.path \in {"assign", "unobserved"}
            /\ Len(PropOf(props', last').layers) = Len(PropOf(props, last').layers)
       ELSE last'.path # "assign"]_vars

\* C15: set(list, index, value) with a valid index leaves value at the index,
\* the length at max(old length, index + 1), every other element at its
\* position, and returns value; on an observed list the list's Dep is notified.
C15_SetOnListReturns ==
  setCall.op = "set" =>
    /\ Len(items) = IF Len(setCall.before) >= setCall.key + 1
                    THEN Len(setCall.before) ELSE setCall.key + 1
    /\ items[setCall.key + 1] = setCall.v
    /\ \A i \in 1..Len(setCall.before) :
         i # setCall.key + 1 => items[i] = setCall.before[i]
    /\ setCall.observed => setCall.notified
    /\ ~setCall.threw
    /\ setCall.ret = setCall.v

\* C21: a write to a reactive property that wraps a getter without setter is
\* ignored: the heap, with the value later reads produce and the childOb of
\* the property, is as it was, and notify() is called on no Dep.
C21_WriteStep ==
  /\ StepOf("write")
  /\ Reactive(PropOf(props, last'))
  /\ PropOf(props, last').acc = "get"
  /\ Len(PropOf(props, last').layers) = 1
C21_ReadStep ==
  /\ StepOf("read")
  /\ last.op = "write"
  /\ last'.tv = last.tv /\ last'.key = last.key
  /\ Reactive(PropOf(props, last'))
  /\ PropOf(props, last').acc = "get"
  /\ Len(PropOf(props, last').layers) = 1
C21_GetterOnlyWriteIgnored ==
  [][/\ C21_WriteStep =>
          /\ props' = props
          /\ observers' = observers
          /\ ob' = ob
          /\ deps' = deps
          /\ last'.notified = <<>>
          /\ last'.updated = <<>>
          /\ ~last'.threw
     /\ C21_ReadStep => last'.ret = PropOf(props, last').val /\ last'.ret = Num(1)]_vars

\* an object was written to a getter-only reactive property that a watcher is
\* subscribed to: the property still holds the number and has no childOb
C21_Witness ==
  /\ last.op = "write"
  /\ isObject(last.v)
  /\ Reactive(PropOf(props, last))
  /\ PropOf(props, last).acc = "get"
  /\ PropOf(props, last).val = Num(1)
  /\ PropOf(props, last).layers[1].childOb = 0
  /\ deps[PropOf(props, last).layers[1].dep + 1] # <<>>
  /\ last.notified = <<>>

\* C19: removeSub takes out the first matching entry only and keeps the others
\* in order, and does nothing when the subscriber is absent; a subscriber that
\* was in the list once is in it no more after removeSub, and a notify() on a
\* list the subscriber is not in does not call its update().
C19_First(w) == CHOOSE i \in 1..Len(subs) : subs[i] = w /\ \A j \in 1..(i - 1) : subs[j] # w
C19_RemoveStep ==
  IF \A i \in 1..Len(subs) : subs[i] # round'.w THEN subs' = subs
  ELSE /\ Len(subs') = Len(subs) - 1
       /\ \A j \in 1..Len(subs') :
            subs'[j] = IF j < C19_First(round'.w) THEN subs[j] ELSE subs[j + 1]
       /\ Cardinality({i \in 1..Len(subs) : subs[i] = round'.w}) = 1 =>
            \A j \in 1..Len(subs') : subs'[j] # round'.w
C19_NotifyStep ==
  \A w \in WatcherIds :
    (\A i \in 1..Len(subs) : subs[i] # w) =>
      \A i \in 1..Len(round'.updated) : round'.updated[i] # w
C19_TornDownIsGone ==
  [][/\ round'.call = "removeSub" => C19_RemoveStep
     /\ round'.call = "notify" => C19_NotifyStep]_vars

\* removeSub(1) on the list 1, 2, 1 has left 2, 1
C19_Witness ==
  /\ round.call = "removeSub"
  /\ round.w = 1
  /\ round.start = <<1, 2, 1>>
  /\ subs = <<2, 1>>

(***************************************************************************)
(* Properties of the optimizer, checked under SpecOpt.                     *)
(***************************************************************************)
Nodes == 1..Len(ast)
\* the nodes hanging under n, as children or as conditional blocks
Under(n) == {m \in Nodes : ast[m].owner = n}
RECURSIVE Above(_)
Above(n) == IF ast[n].owner = 0 THEN {} ELSE {ast[n].owner} \cup Above(ast[n].owner)
\* a custom component: tag not platform-reserved, not slot, no inline-template
Component(n) ==
  /\ ast[n].type = 1
  /\ ast[n].tag \notin {"div", "template", "slot"}
  /\ ~ast[n].inline
\* the nodes the first pass reaches: those with no component above them
Marked(n) == \A m \in Above(n) : ~Component(m)
\* the nodes the second pass reaches: those with no static root above them
Walked(n) == \A m \in Above(n) : ast[m].staticRoot # "true"

\* C12 as stated: an element is marked static only if every node below it, at
\* any depth, through children and conditional blocks, is marked static;
\* plain-text nodes are static and expression-text nodes are not.
C12_WholeSubtreeStatic ==
  optimized =>
    \A n \in Nodes :
      /\ ast[n].type = 1 /\ ast[n].static = "true" =>
           \A m \in Nodes : n \in Above(m) => ast[m].static = "true"
      /\ ast[n].type = 3 => ast[n].static # "false"
      /\ ast[n].type = 2 => ast[n].static # "true"

\* C12, amended: among the nodes the first pass reaches, an element that is no
\* custom component is marked static only if each of its children and
\* conditional blocks is; a custom component is marked static exactly when it
\* is pre-formatted, and nothing below it is marked at all; a plain-text node
\* is marked static and an expression-text node is marked not static.
C12_StaticIsConjunction ==
  optimized =>
    \A n \in Nodes :
      IF ~Marked(n) THEN ast[n].static = "undefined"
      ELSE /\ ast[n].static # "undefined"
           /\ ast[n].type = 3 => ast[n].static = "true"
           /\ ast[n].type = 2 => ast[n].static = "false"
           /\ ast[n].type = 1 /\ ~Component(n) /\ ast[n].static = "true" =>
                \A m \in Under(n) : ast[m].static = "true"
           /\ Component(n) => (ast[n].static = "true" <=> "pre" \in ast[n].keys)

\* a static element over two plain-text children: all three are marked static
C12_Witness ==
  /\ optimized
  /\ Len(ast) = 3
  /\ ast[1].type = 1
  /\ ast[2].type = 3 /\ ast[2].owner = 1
  /\ ast[3].type = 3 /\ ast[3].owner = 1
  /\ \A n \in Nodes : ast[n].static = "true"

\* C13: the second pass marks an element a static root exactly when it is
\* static, has a child, and its children are not one plain-text node alone;
\* every other element it reaches is marked not a static root, and it reaches
\* nothing below a static root.
C13_OneTextChild(n) ==
  /\ Cardinality({m \in Under(n) : ast[m].link = "child"}) = 1
  /\ \A m \in Under(n) : ast[m].link = "child" => ast[m].type = 3
C13_StaticRootIff ==
  optimized =>
    \A n \in Nodes :
      IF ast[n].type # 1 \/ ~Walked(n) THEN ast[n].staticRoot = "undefined"
      ELSE IF /\ ast[n].static = "true"
              /\ \E m \in Under(n) : ast[m].link = "child"
              /\ ~C13_OneTextChild(n)
      THEN ast[n].staticRoot = "true"
      ELSE ast[n].staticRoot = "false"

\* a static root over a static element: the walk stopped at the root
C13_Witness ==
  /\ optimized
  /\ Len(ast) = 3
  /\ ast[1].staticRoot = "true"
  /\ ast[2].type = 1 /\ ast[2].owner = 1 /\ ast[2].static = "true"
  /\ ast[3].type = 3 /\ ast[3].owner = 2
  /\ ast[2].staticRoot = "undefined"

\* C14: the first pass does not go below a custom component: the component's
\* flag is isStatic(component) whatever its children are, and no node below it
\* is marked.
C14_ComponentFlagIsOwn ==
  optimized =>
    \A n \in Nodes :
      Component(n) /\ Marked(n) =>
        /\ ast[n].static = Flag(isStatic(ast, n))
        /\ \A m \in Nodes : n \in Above(m) => ast[m].static = "undefined"

\* a pre-formatted component over an expression text: the component is static,
\* the text is not marked
C14_Witness ==
  /\ optimized
  /\ Len(ast) = 2
  /\ Component(1)
  /\ ast[2].type = 2
  /\ ast[1].static = "true"
  /\ ast[2].static = "undefined"

\* C17: below an element that is not a static root, the children and the
\* conditional blocks are walked with the flag `in a loop, or the element has a
\* loop directive`: a static or once block of an element with a loop directive
\* gets staticInFor = true; staticInFor is given to static or once elements only.
C17_BlocksInheritLoop ==
  optimized =>
    \A n \in Nodes :
      /\ ast[n].staticInFor # "undefined" =>
           ast[n].type = 1 /\ (ast[n].static = "true" \/ "once" \in ast[n].keys)
      /\ /\ ast[n].link = "block"
         /\ Walked(n)
         /\ "for" \in ast[ast[n].owner].keys
         /\ ast[n].static = "true" \/ "once" \in ast[n].keys
         => ast[n].staticInFor = "true"

\* C23: an element without pre is not static when the chain of its parents
\* reaches a parent with a loop directive through template parents only; a
\* loop above a parent that is not a template does not make it non-static: a
\* plain platform element with nothing below it is then static.
C23_Up(n) == IF ast[n].link = "block" THEN ast[ast[n].owner].owner ELSE ast[n].owner
RECURSIVE C23_TemplatesFrom(_)
\* the parents of n, nearest first, up to and including the first that is not
\* a template
C23_TemplatesFrom(n) ==
  IF C23_Up(n) = 0 THEN <<>>
  ELSE IF ast[C23_Up(n)].tag # "template" THEN <<C23_Up(n)>>
  ELSE <<C23_Up(n)>> \o C23_TemplatesFrom(C23_Up(n))
C23_LoopFirst(n) ==
  \E i \in 1..Len(C23_TemplatesFrom(n)) :
    /\ ast[C23_TemplatesFrom(n)[i]].tag = "template"
    /\ "for" \in ast[C23_TemplatesFrom(n)[i]].keys
C23_PlainLeaf(n) ==
  /\ ast[n].type = 1
  /\ ast[n].tag = "div"
  /\ ast[n].keys = {"plain"}
  /\ Under(n) = {}
  /\ Marked(n)
C23_TemplateLoopPoisons ==
  optimized =>
    \A n \in Nodes :
      /\ ast[n].type = 1 /\ "pre" \notin ast[n].keys /\ C23_LoopFirst(n) =>
           ast[n].static # "true"
      /\ C23_PlainLeaf(n) /\ ~C23_LoopFirst(n) => ast[n].static = "true"

\* a plain element below a template loop, with an element that is no template
\* between them, is static; the element between them is not
C23_Witness ==
  /\ optimized
  /\ Len(ast) = 3
  /\ ast[1].tag = "template" /\ "for" \in ast[1].keys
  /\ ast[2].tag = "div" /\ ast[2].keys = {"plain"} /\ ast[2].owner = 1
  /\ ast[2].static = "false"
  /\ C23_PlainLeaf(3) /\ ast[3].owner = 2 /\ ast[3].static = "true"

\* C24: after optimize a static root is static, and no node above a static
\* root is a static root.
C24_RootsStaticAndNotNested ==
  optimized =>
    \A n \in Nodes :
      ast[n].staticRoot = "true" =>
        /\ ast[n].static = "true"
        /\ \A m \in Above(n) : ast[m].staticRoot # "true"

\* a static root, below an element that is none, over an element that would
\* qualify had the walk reached it
C24_Witness ==
  /\ optimized
  /\ Len(ast) = 3
  /\ ast[1].staticRoot = "false"
  /\ ast[2].owner = 1 /\ ast[2].staticRoot = "true" /\ ast[2].static = "true"
  /\ ast[3].owner = 2 /\ ast[3].type = 1 /\ ast[3].static = "true"
  /\ ast[3].staticRoot = "undefined"

(***************************************************************************)
(* Properties of a read of a list, checked under SpecArr.                  *)
(***************************************************************************)
RECURSIVE C22_Over(_)
\* the cells above cell i, the list itself left out
C22_Over(i) ==
  IF cells[i].owner \in {0, 1} THEN {} ELSE {cells[i].owner} \cup C22_Over(cells[i].owner)
C22_Read == last.op = "read" /\ target # 0
C22_Registered(i) == Count(deps[i + 1], target) = 1

C25_Keys == {EventKeys[i] : i \in 1..Len(EventKeys)}
C25_In(list, k) == \E i \in 1..Len(list) : list[i] = k
C25_RegOf(l, k) == SelectSeq(l.reg, LAMBDA r : r.key = k)
C25_Changed(k) ==
  /\ listeners'.given[k].t = "fn"
  /\ listeners.on[k].t = "fnobj"

\* C25: over calls that hand the previous on as oldOn, a key is registered at
\* most once; add is called only for a key with a handler and no old entry,
\* remove only for a key of oldOn with no handler in on; when the handler of a
\* key changes neither is called, the registered function stays, and invoking
\* it calls the new handler and no other.
C25_OneListenerPerName ==
  [][listeners'.calls = listeners.calls + 1 =>
       \A k \in C25_Keys :
         /\ Len(C25_RegOf(listeners', k)) <= 1
         /\ C25_In(listeners'.adds, k) =>
              ~isUndef(Entry(listeners'.given, k)) /\ isUndef(Entry(listeners.on, k))
         /\ C25_In(listeners'.removes, k) =>
              listeners.on[k] # NoKey /\ isUndef(Entry(listeners'.given, k))
         /\ C25_Changed(k) =>
              /\ ~C25_In(listeners'.adds, k)
              /\ ~C25_In(listeners'.removes, k)
              /\ Len(C25_RegOf(listeners, k)) = 1
              /\ C25_RegOf(listeners', k) = C25_RegOf(listeners, k)
              /\ Invoked(listeners'.objs, C25_RegOf(listeners', k)[1].handler)
                   = <<listeners'.given[k].v>>]_vars

====
